---- MODULE Spec2Model ----
(***************************************************************************)
(* Jellycord: the poll loop of MediaBot (src/modules/bot.py) with the two  *)
(* media-server adapters (src/api/clients/emby_client.py and               *)
(* jellyfin_client.py) and the part of the Discord guild the loop reads    *)
(* and writes: the status text channel, the library-stats category with    *)
(* its voice channels, and the recently-added text channel.                *)
(*                                                                         *)
(* Python strings are TLA+ strings (Len, \o and SubSeq work on them).      *)
(* Every emoji of the source is one code point; here each is one ASCII     *)
(* character, so that lengths are those Python computes.                   *)
(*                                                                         *)
(* Taken as given: the configured guild and category resolve, the bot has  *)
(* its permissions, the media server answers with well-formed records, and *)
(* the Jellyfin user id was resolved in setup_hook.  A chat operation may  *)
(* fail (an exception of discord.py) where the model says so.              *)
(***************************************************************************)
EXTENDS Integers, Sequences, FiniteSets, TLC

(***************************************************************************)
(* Bounds of the model                                                     *)
(***************************************************************************)
\* how many external events (human edits of the guild, upstream changes,
\* process restarts) one behaviour holds
MaxEnv == 1
\* how many chat operations are made to fail in one behaviour
MaxFaults == 1
\* how many loop tasks the event loop can hold
MaxTasks == 2

(***************************************************************************)
(* Python string helpers                                                   *)
(***************************************************************************)
Min(a, b) == IF a < b THEN a ELSE b

\* s[:n]
Prefix(s, n) == SubSeq(s, 1, Min(n, Len(s)))

\* s[n:]  (n counted from 0)
Suffix(s, n) == SubSeq(s, n + 1, Len(s))

UpperChars == <<"A","B","C","D","E","F","G","H","I","J","K","L","M",
                "N","O","P","Q","R","S","T","U","V","W","X","Y","Z">>
LowerChars == <<"a","b","c","d","e","f","g","h","i","j","k","l","m",
                "n","o","p","q","r","s","t","u","v","w","x","y","z">>

LowerChar(c) ==
    IF \E i \in 1..26 : UpperChars[i] = c
    THEN LowerChars[CHOOSE i \in 1..26 : UpperChars[i] = c]
    ELSE c

\* str.lower()
RECURSIVE Lower(_)
Lower(s) == IF Len(s) <= 1 THEN LowerChar(s)
            ELSE LET half == Len(s) \div 2
                 IN  Lower(Prefix(s, half)) \o Lower(Suffix(s, half))

\* sub in s
Contains(s, sub) ==
    \E i \in 1..(Len(s) - Len(sub) + 1) : SubSeq(s, i, i + Len(sub) - 1) = sub

\* s.replace(old, '')
RECURSIVE Remove(_, _)
Remove(s, old) ==
    IF Len(s) < Len(old) THEN s
    ELSE IF Prefix(s, Len(old)) = old THEN Remove(Suffix(s, Len(old)), old)
    ELSE SubSeq(s, 1, 1) \o Remove(Suffix(s, 1), old)

\* s.split(): the words of s, split at runs of blanks
RECURSIVE SplitFrom(_, _)
SplitFrom(s, word) ==
    IF s = "" THEN (IF word = "" THEN <<>> ELSE <<word>>)
    ELSE IF SubSeq(s, 1, 1) = " "
         THEN (IF word = "" THEN <<>> ELSE <<word>>) \o SplitFrom(Suffix(s, 1), "")
         ELSE SplitFrom(Suffix(s, 1), word \o SubSeq(s, 1, 1))

Split(s) == SplitFrom(s, "")

\* sep.join(words)
RECURSIVE Join(_, _)
Join(sep, words) ==
    IF words = <<>> THEN ""
    ELSE IF Len(words) = 1 THEN words[1]
    ELSE words[1] \o sep \o Join(sep, Tail(words))

(***************************************************************************)
(* MediaBot.format_number                                                  *)
(***************************************************************************)
\* f"{num/unit:.1f}": num/unit rounded to one decimal.  An exact tie goes to
\* the even digit; the counts of the model hold no tie.
OneDecimal(num, unit) ==
    LET tenth  == unit \div 10
        q      == num \div tenth
        r      == num % tenth
        tenths == IF 2 * r > tenth \/ (2 * r = tenth /\ q % 2 = 1)
                  THEN q + 1 ELSE q
    IN  ToString(tenths \div 10) \o "." \o ToString(tenths % 10)

format_number(num) ==
    IF num >= 1000000 THEN OneDecimal(num, 1000000) \o "M"
    ELSE IF num >= 1000 THEN OneDecimal(num, 1000) \o "K"
    ELSE ToString(num)

(***************************************************************************)
(* State                                                                   *)
(***************************************************************************)
VARIABLES
    \* ---- the media server (upstream) ----
    adapter,                \* which client setup_hook made the active_client
    folders,                \* Items of /Library/MediaFolders
    itemCount,              \* library Id -> the count the server reports for it
    rawSessions,            \* the list /Sessions answers
    rawLatest,              \* the list the recently-added endpoint answers
    reachable,              \* the media server answers requests at all
    countFails,             \* ids of the libraries whose count request fails
    prefixed,               \* the server answers under the /jellyfin path only
    widthKnown,             \* the items carry a Width, one that passes the width
                            \* filter of their library's count query
    \* ---- the host process ----
    refresh_seconds,        \* config.general.refresh_seconds
    snapshot,               \* what a caller of get_all_stream_info got last
    base_url,               \* JellyfinClient.base_url: as configured, or with /jellyfin
    \* ---- the Discord guild ----
    voice,                  \* category.voice_channels: names, in position order
    statusExists,           \* the status text channel exists
    statusMsgs,             \* its messages, oldest first
    recentName,             \* name of the recently-added text channel, or NoChannel
    recentMsgs,             \* its messages, oldest first
    \* ---- MediaBot ----
    status_message,         \* self.status_message
    recently_added_message, \* self.recently_added_message
    setupDone,              \* setup_hook has run in this process
    ready,                  \* the client is ready (wait_until_ready returns)
    closed,                 \* self.is_closed()
    pc,                     \* task -> its position in status_update_loop
    \* ---- bookkeeping of the check ----
    ops,                    \* chat operations issued in the current cycle
    planned,                \* chat operations the cycle issues when none fails
    envLeft,                \* external events still allowed
    faultsLeft              \* failures still to inject

upstreamVars == <<adapter, folders, itemCount, rawSessions, rawLatest,
                  reachable, countFails, prefixed, widthKnown>>
hostVars     == <<refresh_seconds, snapshot>>
clientVars   == <<base_url>>
voiceVars    == <<voice>>
statusVars   == <<statusExists, statusMsgs, status_message>>
recentVars   == <<recentName, recentMsgs, recently_added_message>>
loopVars     == <<setupDone, ready, closed, pc>>
vars == <<adapter, folders, itemCount, rawSessions, rawLatest,
          reachable, countFails, prefixed, widthKnown, refresh_seconds, snapshot,
          base_url,
          voice, statusExists, statusMsgs, recentName, recentMsgs,
          status_message, recently_added_message, setupDone, ready, closed, pc,
          ops, planned, envLeft, faultsLeft>>

(***************************************************************************)
(* The media server's data, drawn from small sets                          *)
(***************************************************************************)
\* /Library/MediaFolders items
FolderPool == <<
    [Id |-> 1, Name |-> "Movies 4K", CollectionType |-> "movies"],
    [Id |-> 2, Name |-> "Kids TV",   CollectionType |-> "tvshows"] >>

FolderLists == { <<>>, <<FolderPool[1]>>, FolderPool }

Counts == {7, 1200}

NoItem == [Type |-> "none"]

\* /Sessions records: one playing an episode, one idle
PlayingSession == [
    UserName |-> "ann", Client |-> "Web", DeviceName |-> "Chrome",
    NowPlayingItem |-> [Name |-> "Pilot", Type |-> "Episode",
                        SeriesName |-> "Lost", ParentIndexNumber |-> 1,
                        IndexNumber |-> 2, RunTimeTicks |-> 2000000000,
                        Width |-> 0, Height |-> 0, Bitrate |-> 0],
    PlayState |-> [PositionTicks |-> 600000000],
    TranscodingInfo |-> NoItem ]

IdleSession == [
    UserName |-> "bob", Client |-> "TV", DeviceName |-> "Shield",
    NowPlayingItem |-> NoItem,
    PlayState |-> [PositionTicks |-> 0],
    TranscodingInfo |-> NoItem ]

SessionLists == { <<>>, <<IdleSession>>, <<PlayingSession>> }

\* recently added items as the server lists them
LatestMovie == [Name |-> "Heat", Type |-> "Movie", DateCreated |-> 1000,
                SeriesName |-> "", ParentIndexNumber |-> 0, IndexNumber |-> 0]
LatestEpisode == [Name |-> "Pilot", Type |-> "Episode", DateCreated |-> 2000,
                  SeriesName |-> "Lost", ParentIndexNumber |-> 1, IndexNumber |-> 2]

LatestLists == { <<>>, <<LatestEpisode, LatestMovie>> }

\* s * n
RECURSIVE Repeat(_, _)
Repeat(s, n) == IF n = 0 THEN "" ELSE s \o Repeat(s, n - 1)

\* more /Library/MediaFolders items: a name with two flag words, a name longer
\* than a channel name may be
KidsAnimeFolder == [Id |-> 3, Name |-> "Kids Anime", CollectionType |-> "tvshows"]
LongFolder == [Id |-> 4, Name |-> Repeat("Documentary ", 9) \o "Films",
               CollectionType |-> "movies"]

\* libraries whose names carry flag words their kind does not use, or several
KidsMoviesFolder == [Id |-> 5, Name |-> "Kids Movies", CollectionType |-> "movies"]
Kids4KFolder     == [Id |-> 6, Name |-> "Kids 4K", CollectionType |-> "tvshows"]
FlaggedMusicFolder ==
    [Id |-> 7, Name |-> "Anime 4K Music", CollectionType |-> "music"]
Anime4KFolder    == [Id |-> 8, Name |-> "Anime 4K", CollectionType |-> "tvshows"]

\* TotalRecordCount of each of these libraries, by Id: small, thousands,
\* millions, just below a million, and an empty library
WideCounts == <<1200, 1500000, 999960, 7, 7, 7, 7, 0>>

WideFolderLists ==
    { <<>>, FolderPool, <<KidsAnimeFolder, FolderPool[1]>>, <<LongFolder>>,
      <<KidsMoviesFolder, Kids4KFolder>>, <<FlaggedMusicFolder, Anime4KFolder>> }

\* more /Sessions records: a playing item at position 0, a playing item whose
\* PositionTicks is null, one whose RunTimeTicks is a string, one that is
\* transcoded, one with a long name
StartingSession == [PlayingSession EXCEPT !.UserName = "cat",
                                          !.PlayState = [PositionTicks |-> 0]]

NullPositionSession ==
    [PlayingSession EXCEPT !.UserName = "dan",
                           !.PlayState = [PositionTicks |-> 0, PositionKind |-> "null"]]

TextRunTimeSession ==
    [PlayingSession EXCEPT !.UserName = "eve",
        !.NowPlayingItem = [Name |-> "Pilot", Type |-> "Episode",
                            SeriesName |-> "Lost", ParentIndexNumber |-> 1,
                            IndexNumber |-> 2, RunTimeTicks |-> 0,
                            RunTimeKind |-> "text",
                            Width |-> 0, Height |-> 0, Bitrate |-> 0]]

TranscodedSession ==
    [PlayingSession EXCEPT !.UserName = "fay",
        !.TranscodingInfo = [Type |-> "transcode", Width |-> 1280, Height |-> 720,
                             Bitrate |-> 4000, VideoCodec |-> "h264"]]

LongTitle == Repeat("A Very Long Title ", 15)

LongTitleSession ==
    [PlayingSession EXCEPT !.UserName = "gus",
        !.NowPlayingItem = [Name |-> LongTitle, Type |-> "Movie",
                            SeriesName |-> "", ParentIndexNumber |-> 0,
                            IndexNumber |-> 0, RunTimeTicks |-> 2000000000,
                            Width |-> 0, Height |-> 0, Bitrate |-> 0]]

\* positions that are not a whole number of seconds (60.5 s and 0.5 s of
\* 200 s), and a position at the end of the item
MidSecondSession ==
    [PlayingSession EXCEPT !.UserName = "hal",
                           !.PlayState = [PositionTicks |-> 605000000]]

FirstSecondSession ==
    [PlayingSession EXCEPT !.UserName = "ian",
                           !.PlayState = [PositionTicks |-> 5000000]]

FinishedSession ==
    [PlayingSession EXCEPT !.UserName = "jon",
                           !.PlayState = [PositionTicks |-> 2000000000]]

\* transcoded sessions whose record names the address of the player
From(session, user, address) ==
    [ field \in DOMAIN session \cup {"RemoteEndPoint"} |->
        IF field = "RemoteEndPoint" THEN address
        ELSE IF field = "UserName" THEN user
        ELSE session[field] ]

LanSession    == From(TranscodedSession, "kim", "192.168.1.5")
DockerSession == From(TranscodedSession, "lea", "172.17.0.3")

WideSessionLists ==
    { <<>>, <<PlayingSession>>, <<StartingSession, IdleSession>>,
      <<PlayingSession, NullPositionSession>>,
      <<PlayingSession, TextRunTimeSession>>,
      <<TranscodedSession, PlayingSession>>, <<LongTitleSession>>,
      <<FinishedSession, MidSecondSession>>, <<FirstSecondSession>>,
      <<LanSession, DockerSession>> }

\* the default of GeneralConfig.refresh_seconds
DefaultRefreshSeconds == 5

\* General.RefreshSeconds of jellycord.yaml
RefreshChoices == {1, DefaultRefreshSeconds, 60}

\* readings of the wall clock (seconds since the epoch)
Clock == {90000}

(***************************************************************************)
(* EmbyClient                                                              *)
(***************************************************************************)
\* str(datetime.timedelta(seconds=n)) for n below one day
TwoDigits(n) == IF n < 10 THEN "0" \o ToString(n) ELSE ToString(n)

TimeDelta(n) ==
    ToString(n \div 3600) \o ":" \o TwoDigits((n % 3600) \div 60)
        \o ":" \o TwoDigits(n % 60)

TicksPerSecond == 10000000

HasItem(session) == session.NowPlayingItem /= NoItem

\* what JSON type a tick field of a record has: a number unless the record
\* says otherwise ("null" for null, "text" for a string)
PositionKind(session) ==
    IF "PositionKind" \in DOMAIN session.PlayState
    THEN session.PlayState.PositionKind ELSE "number"

RunTimeKind(session) ==
    IF "RunTimeKind" \in DOMAIN session.NowPlayingItem
    THEN session.NowPlayingItem.RunTimeKind ELSE "number"

\* EmbyClient.parse_session_info
parse_session_info(session) ==
    LET transcoding == session.TranscodingInfo
        now_playing == session.NowPlayingItem
        media_type  == Lower(now_playing.Type)
        media_title ==
            IF media_type = "episode"
            THEN now_playing.SeriesName
                   \o " - S" \o TwoDigits(now_playing.ParentIndexNumber)
                   \o "E" \o TwoDigits(now_playing.IndexNumber)
                   \o " - " \o now_playing.Name
            ELSE now_playing.Name
        position_ticks == session.PlayState.PositionTicks
        \* a null RunTimeTicks is falsy: runtime_seconds is 0
        runtime_ticks  == IF RunTimeKind(session) = "null" THEN 0
                          ELSE now_playing.RunTimeTicks
        \* int(ticks / 10_000_000)
        position_seconds == position_ticks \div TicksPerSecond
        runtime_seconds  == runtime_ticks \div TicksPerSecond
        known == position_ticks /= 0 /\ runtime_ticks /= 0
        progress == IF known
                    THEN TimeDelta(position_seconds) \o "/" \o TimeDelta(runtime_seconds)
                    ELSE "Unknown"
        \* int(runtime_seconds - position_seconds), on the undivided ticks
        remaining == (runtime_ticks - position_ticks) \div TicksPerSecond
        eta == IF known /\ runtime_ticks - position_ticks > 0
               THEN TimeDelta(remaining) ELSE "None"
        source == IF transcoding /= NoItem THEN transcoding ELSE now_playing
        sized  == source.Width /= 0 /\ source.Height /= 0
        rate   == IF source.Bitrate /= 0
                  THEN " " \o OneDecimal(source.Bitrate, 1000) \o "Mbps" ELSE ""
        quality ==
            IF transcoding /= NoItem
            THEN IF sized
                 THEN ToString(source.Width) \o "x" \o ToString(source.Height) \o rate
                        \o (IF source.VideoCodec /= ""
                            THEN " (" \o source.VideoCodec \o ")" ELSE "")
                 ELSE "Unknown"
            ELSE IF sized
                 THEN ToString(source.Width) \o "x" \o ToString(source.Height) \o rate
                        \o " (direct)"
                 ELSE "Direct"
    IN  [ user            |-> session.UserName,
          media_type      |-> media_type,
          media_title     |-> media_title,
          series_name     |-> now_playing.SeriesName,
          product         |-> session.Client,
          player          |-> session.DeviceName,
          quality_profile |-> quality,
          progress        |-> progress,
          eta             |-> eta,
          stream_state    |-> "playing",
          transcoding     |-> transcoding /= NoItem ]

\* the result of a call: a value, or an exception raised to the caller
Returned(v) == [raised |-> FALSE, value |-> v]
Raised      == [raised |-> TRUE,  value |-> <<>>]

\* parse_session_info returns None (its own except) when the arithmetic on a
\* tick field raises: a RunTimeTicks that is a string
Parses(session) == RunTimeKind(session) /= "text"

RECURSIVE EmbyActive(_)
EmbyActive(sessions) ==
    IF sessions = <<>> THEN <<>>
    ELSE LET session == Head(sessions)
         IN  (IF HasItem(session) /\ session.PlayState.PositionTicks > 0
                 /\ Parses(session)
              THEN <<parse_session_info(session)>> ELSE <<>>)
             \o EmbyActive(Tail(sessions))

\* play_state.get('PositionTicks', 0) > 0 raises TypeError when the session has
\* a NowPlayingItem and its PositionTicks is null or a string
Unorderable(session) == HasItem(session) /\ PositionKind(session) /= "number"

\* EmbyClient.get_sessions: every exception inside it (the request that fails,
\* the comparison that raises) ends in "return []"
EmbyGetSessions(sessions) ==
    IF ~reachable \/ \E i \in 1..Len(sessions) : Unorderable(sessions[i])
    THEN Returned(<<>>)
    ELSE Returned(EmbyActive(sessions))

\* the server's answer to an /Items count query
ServerCount(count, query) ==
    IF (query.MinWidth /= 0 \/ query.MaxWidth /= 0) /\ ~widthKnown
    THEN 0      \* no item passes a width filter
    ELSE count[query.ParentId]

\* the /Items query EmbyClient.get_library_stats builds for a library
EmbyBaseQuery(library) ==
    LET name     == Lower(library.Name)
        is_4k    == Contains(name, "4k")
        is_kids  == Contains(name, "kids")
        is_anime == Contains(name, "anime")
    IN  [ ParentId |-> library.Id,
          MinWidth |-> IF is_4k THEN 3840 ELSE 0,
          MaxWidth |-> IF ~is_4k /\ ~(is_kids \/ is_anime) THEN 3839 ELSE 0,
          IncludeItemTypes |->
              CASE library.CollectionType = "movies"  -> "Movie"
                [] library.CollectionType = "tvshows" -> "Series"
                [] library.CollectionType = "music"   -> "Audio,MusicAlbum"
                [] OTHER -> "" ]

EmbyAltQuery(library) ==
    [ ParentId |-> library.Id, MinWidth |-> 0, MaxWidth |-> 0,
      IncludeItemTypes |-> "Series" ]

KnownTypes == {"movies", "tvshows", "music"}

\* count queries that retry whenever the first count is zero, whatever the kind
EmbyCountQueriesAnyKind(library, count) ==
    IF ServerCount(count, EmbyBaseQuery(library)) = 0
    THEN <<EmbyBaseQuery(library), EmbyAltQuery(library)>>
    ELSE <<EmbyBaseQuery(library)>>

\* the /Items requests get_library_stats makes for one library: the query
\* built for it and, for a tvshows library whose count came back 0, the
\* alternative query
EmbyCountQueries(library, count) ==
    IF ServerCount(count, EmbyBaseQuery(library)) = 0
       /\ library.CollectionType = "tvshows"
    THEN <<EmbyBaseQuery(library), EmbyAltQuery(library)>>
    ELSE <<EmbyBaseQuery(library)>>

\* one library of EmbyClient.get_library_stats: its summary, or nothing (a
\* count request that fails raises in _make_request: the library is skipped)
EmbyLibraryStats(library, count) ==
    IF Lower(library.Name) = "collections" \/ library.CollectionType \notin KnownTypes
       \/ library.Id \in countFails
    THEN <<>>
    ELSE LET name  == Lower(library.Name)
             queries == EmbyCountQueries(library, count)
             total_count == ServerCount(count, queries[Len(queries)])
         IN  << [ Name      |-> library.Name,
                  Type      |-> library.CollectionType,
                  ItemCount |-> total_count,
                  Is4K      |-> Contains(name, "4k"),
                  IsKids    |-> Contains(name, "kids"),
                  IsAnime   |-> Contains(name, "anime") ] >>

\* EmbyClient.get_library_stats
RECURSIVE EmbyGetLibraryStats(_, _)
EmbyGetLibraryStats(libraries, count) ==
    IF libraries = <<>> \/ ~reachable THEN <<>>
    ELSE EmbyLibraryStats(Head(libraries), count)
           \o EmbyGetLibraryStats(Tail(libraries), count)

\* the "time ago" label of EmbyClient.get_recently_added
TimeAgo(delta) ==
    IF delta \div 86400 > 0 THEN ToString(delta \div 86400) \o "d ago"
    ELSE IF delta % 86400 >= 3600 THEN ToString((delta % 86400) \div 3600) \o "h ago"
    ELSE ToString((delta % 86400) \div 60) \o "m ago"

EmbyRecentItem(item, now) ==
    LET item_type == Lower(item.Type)
    IN  [ title |-> IF item_type = "episode"
                    THEN item.SeriesName
                           \o " - S" \o TwoDigits(item.ParentIndexNumber)
                           \o "E" \o TwoDigits(item.IndexNumber)
                           \o " - " \o item.Name
                    ELSE item.Name,
          type  |-> item_type,
          added |-> TimeAgo(now - item.DateCreated) ]

\* EmbyClient.get_recently_added
EmbyGetRecentlyAdded(items, now) ==
    IF ~reachable THEN <<>>
    ELSE [i \in 1..Len(items) |-> EmbyRecentItem(items[i], now)]

(***************************************************************************)
(* JellyfinClient                                                          *)
(***************************************************************************)
\* JellyfinClient.get_sessions: StreamInfo is built with keyword arguments
\* the dataclass does not have, so the first session with a NowPlayingItem
\* raises TypeError
JellyfinGetSessions(sessions) ==
    IF ~reachable THEN Returned(<<>>)     \* _get answers {}: "return []"
    ELSE IF \E i \in 1..Len(sessions) : HasItem(sessions[i])
    THEN Raised
    ELSE Returned(<<>>)

\* the server's answer to /Items/Counts?ParentId=
ServerCounts(count, library_id) ==
    [MovieCount |-> count[library_id], SeriesCount |-> count[library_id],
     SongCount |-> count[library_id]]

\* what JellyfinClient._get hands back for /Items/Counts: the server's answer,
\* or {} when the request fails, and counts.get(key, 0) of {} is 0
JellyfinCounts(count, library_id) ==
    IF library_id \in countFails
    THEN [MovieCount |-> 0, SeriesCount |-> 0, SongCount |-> 0]
    ELSE ServerCounts(count, library_id)

\* one library of JellyfinClient.get_library_stats: its summary, or nothing
JellyfinLibraryStats(library, count) ==
    LET library_name == library.Name
        name         == Lower(library_name)
        library_type == Lower(library.CollectionType)
        counts       == JellyfinCounts(count, library.Id)
    IN  IF library_name = "" \/ name = "collections" \/ library_type \notin KnownTypes
        THEN <<>>
        ELSE << [ name     |-> library_name,
                  type     |-> library_type,
                  count    |-> CASE library_type = "movies"  -> counts.MovieCount
                                 [] library_type = "tvshows" -> counts.SeriesCount
                                 [] library_type = "music"   -> counts.SongCount,
                  is_4k    |-> Contains(name, "4k"),
                  is_kids  |-> Contains(name, "kids"),
                  is_anime |-> Contains(name, "anime") ] >>

\* JellyfinClient.get_library_stats
RECURSIVE JellyfinGetLibraryStats(_, _)
JellyfinGetLibraryStats(libraries, count) ==
    IF libraries = <<>> \/ ~reachable THEN <<>>
    ELSE JellyfinLibraryStats(Head(libraries), count)
           \o JellyfinGetLibraryStats(Tail(libraries), count)

JellyfinRecentItem(item) ==
    [ Name          |-> item.Name,
      Type          |-> item.Type,
      AddedDate     |-> item.DateCreated,
      SeriesName    |-> item.SeriesName,
      SeasonNumber  |-> item.ParentIndexNumber,
      EpisodeNumber |-> item.IndexNumber ]

\* JellyfinClient.get_recently_added
JellyfinGetRecentlyAdded(items, limit) ==
    LET kept == SelectSeq(items, LAMBDA item : item.Type \in {"Movie", "Episode"})
    IN  IF ~reachable THEN <<>>
        ELSE [i \in 1..Min(limit, Len(kept)) |-> JellyfinRecentItem(kept[i])]

\* EmbyClient.get_all_stream_info.  get_sessions hands it StreamInfo objects:
\* session.get(...) in the loop raises AttributeError for the first of them.
\* With no session the loop is skipped and ServerStats(current_streams=...)
\* raises TypeError, the dataclass having no field of that name
get_all_stream_info ==
    LET sessions == EmbyGetSessions(rawSessions).value
    IN  IF sessions /= <<>>
        THEN Raised      \* 'StreamInfo' object has no attribute 'get'
        ELSE Raised      \* unexpected keyword argument 'current_streams'

\* JellyfinClient.base_url: the configured URL, or that URL with /jellyfin
Configured == "url"
WithPrefix == "url/jellyfin"

\* JellyfinClient._get tries base_url + endpoint, then base_url + /jellyfin +
\* endpoint, and keeps the base of the URL that answered:
\* self.base_url = url.split(endpoint)[0]
AfterGet ==
    IF adapter = "jellyfin" /\ reachable /\ prefixed THEN WithPrefix ELSE base_url

(***************************************************************************)
(* The active client                                                       *)
(***************************************************************************)
GetSessions ==
    IF adapter = "emby" THEN EmbyGetSessions(rawSessions)
    ELSE JellyfinGetSessions(rawSessions)

GetLibraryStats ==
    IF adapter = "emby" THEN EmbyGetLibraryStats(folders, itemCount)
    ELSE JellyfinGetLibraryStats(folders, itemCount)

GetRecentlyAdded(now) ==
    IF adapter = "emby" THEN EmbyGetRecentlyAdded(rawLatest, now)
    ELSE JellyfinGetRecentlyAdded(rawLatest, 10)

(***************************************************************************)
(* MediaBot: what it renders                                               *)
(***************************************************************************)
\* the emoji of the source, one character each
MOVIE_EMOJI == "m"
TV_EMOJI    == "t"
KIDS_EMOJI  == "k"
ANIME_EMOJI == "a"
MUSIC_EMOJI == "u"
BOOKS_EMOJI == "b"

\* Discord's limit on a channel name
NameLimit == 100

\* Discord's limit on the name of an embed field (update_status hands the
\* title of a session to embed.add_field as it is)
FieldNameLimit == 256

\* the keys update_library_stats reads from a library record
LibraryKeys == {"name", "type", "count", "is_4k", "is_kids", "is_anime"}

\* library[...] raises KeyError on a record without the key
Readable(library) == LibraryKeys \subseteq DOMAIN library

\* a label chosen by the flags before the kind of the library
LibraryEmojiFlagsFirst(library) ==
    IF library.is_kids THEN KIDS_EMOJI
    ELSE IF library.is_anime THEN ANIME_EMOJI
    ELSE CASE library.type = "movies" ->
                  IF library.is_4k THEN MOVIE_EMOJI \o " 4K" ELSE MOVIE_EMOJI
           [] library.type = "tvshows" ->
                  IF library.is_4k THEN TV_EMOJI \o " 4K" ELSE TV_EMOJI
           [] library.type = "music" -> MUSIC_EMOJI
           [] OTHER -> BOOKS_EMOJI

LibraryEmoji(library) ==
    CASE library.type = "movies" ->
             IF library.is_4k THEN MOVIE_EMOJI \o " 4K" ELSE MOVIE_EMOJI
      [] library.type = "tvshows" ->
             IF library.is_kids THEN KIDS_EMOJI
             ELSE IF library.is_anime THEN ANIME_EMOJI
             ELSE IF library.is_4k THEN TV_EMOJI \o " 4K"
             ELSE TV_EMOJI
      [] library.type = "music" -> MUSIC_EMOJI
      [] OTHER -> BOOKS_EMOJI

\* the channel name update_library_stats builds for a library it can read
ChannelName(library) ==
    LET display_name ==
            IF library.is_4k
            THEN Join(" ", Split(Remove(Remove(library.name, "4K"), "4k")))
            ELSE library.name
    IN  Prefix(LibraryEmoji(library) \o " " \o display_name \o ": "
                 \o format_number(library.count), NameLimit)

\* str.title() of a one-word lower-case string
Title(s) ==
    IF s = "" THEN ""
    ELSE LET c == SubSeq(s, 1, 1)
         IN  (IF \E i \in 1..26 : LowerChars[i] = c
              THEN UpperChars[CHOOSE i \in 1..26 : LowerChars[i] = c]
              ELSE c) \o Suffix(s, 1)

NoStreams == "u No active streams"

\* one field of the status embed
SessionField(session) ==
    LET title_emoji ==
            IF session.media_type = "movie" THEN MOVIE_EMOJI
            ELSE IF session.media_type = "episode" THEN TV_EMOJI
            ELSE MUSIC_EMOJI
        title ==
            IF session.media_type = "episode"
            THEN title_emoji \o " " \o session.series_name \o " - " \o session.media_title
            ELSE title_emoji \o " " \o session.media_title
        progress ==
            "**Progress:** " \o session.progress
              \o (IF session.eta /= "None"
                  THEN " (" \o session.eta \o " remaining)" ELSE "")
    IN  [ name  |-> title,
          value |-> "**User:** " \o session.user
                      \o "\n**Player:** " \o session.product
                      \o " (" \o session.player \o ")"
                      \o "\n**Quality:** " \o session.quality_profile
                      \o "\n" \o progress
                      \o "\n**State:** " \o Title(session.stream_state)
                      \o (IF session.transcoding
                          THEN "\n**Transcoding:** Yes" ELSE "") ]

\* the embed update_status builds
StatusEmbed(sessions, now) ==
    [ title       |-> "Now Playing",
      description |-> IF sessions = <<>> THEN NoStreams
                      ELSE "**Active Streams:** " \o ToString(Len(sessions)),
      fields      |-> [i \in 1..Len(sessions) |-> SessionField(sessions[i])],
      timestamp   |-> now ]

\* discord.utils.format_dt(added_date, 'R')
FormatDt(ts) == "<t:" \o ToString(ts) \o ":R>"

\* item[...] of update_recently_added raises KeyError on a record without it
ItemReadable(item) == {"Type", "Name", "AddedDate"} \subseteq DOMAIN item

MovieLine(movie) ==
    "* **" \o movie.Name \o "** (" \o FormatDt(movie.AddedDate) \o ")"

EpisodeLine(episode) ==
    "* **" \o episode.SeriesName
      \o " - S" \o TwoDigits(episode.SeasonNumber)
      \o "E" \o TwoDigits(episode.EpisodeNumber)
      \o "** - " \o episode.Name \o " (" \o FormatDt(episode.AddedDate) \o ")"

\* how many items of a type one section lists
SectionLimit == 5

\* the embed update_recently_added builds from items it can read
RecentEmbed(items) ==
    LET movies   == SelectSeq(items, LAMBDA item : item.Type = "Movie")
        episodes == SelectSeq(items, LAMBDA item : item.Type = "Episode")
        movie_list ==
            [i \in 1..Min(SectionLimit, Len(movies)) |-> MovieLine(movies[i])]
        episode_list ==
            [i \in 1..Min(SectionLimit, Len(episodes)) |-> EpisodeLine(episodes[i])]
    IN  [ title  |-> "Recently Added",
          fields |->
              (IF movies /= <<>>
               THEN << [name |-> "m Movies", value |-> Join("\n", movie_list)] >>
               ELSE <<>>)
              \o
              (IF episodes /= <<>>
               THEN << [name |-> "t Episodes", value |-> Join("\n", episode_list)] >>
               ELSE <<>>) ]

(***************************************************************************)
(* MediaBot: the three steps of a cycle, as functions of the state they    *)
(* read.  done is the list of chat operations the cycle has issued so far; *)
(* the operation number fail (counted over the cycle, 0 for none) is made  *)
(* to raise.                                                               *)
(***************************************************************************)
Op(kind, target, ok) == [op |-> kind, target |-> target, ok |-> ok]

Fails(done, fail) == fail = Len(done) + 1

Msg(author, embed, held) == [author |-> author, embed |-> embed, held |-> held]

\* values of a message handle: None, a message that exists, a deleted one
Handles == {"None", "live", "gone"}

\* channel.history(limit=10)
HistoryLimit == 10

\* the position of the newest message of the bot that channel.history(limit)
\* yields, 0 when it yields none
LastOwn(msgs, limit) ==
    LET own == { j \in 1..Len(msgs) :
                   j > Len(msgs) - limit /\ msgs[j].author = "bot" }
    IN  IF own = {} THEN 0 ELSE CHOOSE j \in own : \A k \in own : k <= j

HeldIndex(msgs) == CHOOSE j \in 1..Len(msgs) : msgs[j].held

\* message.edit(embed=embed) on a held handle
EditHeld(msgs, handle, embed, surface, done, fail) ==
    LET ok == handle = "live" /\ ~Fails(done, fail)
    IN  [ msgs   |-> IF ok THEN [msgs EXCEPT ![HeldIndex(msgs)].embed = embed]
                     ELSE msgs,
          handle |-> handle,
          ops    |-> Append(done, Op("edit", surface, ok)) ]

\* channel.send(embed=embed), the handle kept when it succeeds
SendNew(msgs, handle, embed, surface, done, fail) ==
    LET ok == ~Fails(done, fail)
    IN  [ msgs   |-> IF ok THEN Append(msgs, Msg("bot", embed, TRUE)) ELSE msgs,
          handle |-> IF ok THEN "live" ELSE handle,
          ops    |-> Append(done, Op("send", surface, ok)) ]

\* lines 296-307 of update_status
StatusWrite(msgs, handle, embed, done, fail) ==
    IF handle = "None"
    THEN LET j == LastOwn(msgs, HistoryLimit)
         IN  IF j /= 0
             THEN [ msgs   |-> [msgs EXCEPT ![j].held = TRUE],
                    handle |-> "live",
                    ops    |-> done ]
             ELSE SendNew(msgs, handle, embed, "status", done, fail)
    ELSE EditHeld(msgs, handle, embed, "status", done, fail)

\* MediaBot.update_status, with ensure_channel_exists
update_status(done, fail, now) ==
    LET created == ~statusExists /\ ~Fails(done, fail)
        ops1 == IF statusExists THEN done
                ELSE Append(done, Op("create_text_channel", "status", created))
        sessions == GetSessions
        unchanged == [ exists |-> statusExists \/ created, msgs |-> statusMsgs,
                       handle |-> status_message, ops |-> ops1 ]
    IN  IF ~(statusExists \/ created) \/ sessions.raised
        THEN unchanged
        ELSE LET w == StatusWrite(statusMsgs, status_message,
                                  StatusEmbed(sessions.value, now), ops1, fail)
             IN  [ exists |-> TRUE, msgs |-> w.msgs, handle |-> w.handle,
                   ops |-> w.ops ]

\* MediaBot.update_or_create_channel
update_or_create_channel(channels, channel_name, done, fail) ==
    LET name == Prefix(channel_name, NameLimit)
    IN  IF \E j \in 1..Len(channels) : channels[j] = name
        THEN [voice |-> channels, ops |-> done]
        ELSE LET ok == ~Fails(done, fail)
             IN  [ voice |-> IF ok THEN Append(channels, name) ELSE channels,
                   ops   |-> Append(done, Op("create_voice_channel", name, ok)) ]

\* the first loop of update_library_stats
RECURSIVE CreateLoop(_, _, _, _, _)
CreateLoop(stats, channels, valid, done, fail) ==
    IF stats = <<>> THEN [voice |-> channels, valid |-> valid, ops |-> done]
    ELSE LET library == Head(stats)
         IN  IF ~Readable(library)
             THEN CreateLoop(Tail(stats), channels, valid, done, fail)
             ELSE LET channel_name == ChannelName(library)
                      r == update_or_create_channel(channels, channel_name, done, fail)
                  IN  CreateLoop(Tail(stats), r.voice, valid \cup {channel_name},
                                 r.ops, fail)

\* the second loop of update_library_stats
RECURSIVE CleanupLoop(_, _, _, _, _)
CleanupLoop(channels, valid, kept, done, fail) ==
    IF channels = <<>> THEN [voice |-> kept, ops |-> done]
    ELSE LET name == Head(channels)
         IN  IF name \in valid
             THEN CleanupLoop(Tail(channels), valid, Append(kept, name), done, fail)
             ELSE LET ok == ~Fails(done, fail)
                  IN  CleanupLoop(Tail(channels), valid,
                                  IF ok THEN kept ELSE Append(kept, name),
                                  Append(done, Op("delete_voice_channel", name, ok)),
                                  fail)

\* update_library_stats with the two loops in the other order: stale channels
\* are deleted before the missing ones are created
update_library_stats_cleanup_first(done, fail) ==
    LET stats == GetLibraryStats
        valid == { ChannelName(stats[i]) :
                     i \in { k \in 1..Len(stats) : Readable(stats[k]) } }
    IN  IF stats = <<>>
        THEN [voice |-> voice, ops |-> done]
        ELSE LET d == CleanupLoop(voice, valid, <<>>, done, fail)
                 c == CreateLoop(stats, d.voice, {}, d.ops, fail)
             IN  [voice |-> c.voice, ops |-> c.ops]

\* update_library_stats where a failed creation ends the step: the exception
\* reaches the handler's outer except and the clean-up loop is not run
update_library_stats_unguarded(done, fail) ==
    LET stats == GetLibraryStats
    IN  IF stats = <<>>
        THEN [voice |-> voice, ops |-> done]
        ELSE LET c == CreateLoop(stats, voice, {}, done, fail)
             IN  IF \E k \in 1..Len(c.ops) : ~c.ops[k].ok
                 THEN [voice |-> c.voice, ops |-> c.ops]
                 ELSE CleanupLoop(c.voice, c.valid, <<>>, c.ops, fail)

\* update_library_stats without the "if not stats: return": the clean-up loop
\* runs also when the client returned no summary
update_library_stats_always_cleans(done, fail) ==
    LET c == CreateLoop(GetLibraryStats, voice, {}, done, fail)
    IN  CleanupLoop(c.voice, c.valid, <<>>, c.ops, fail)

\* MediaBot.update_library_stats
update_library_stats(done, fail) ==
    LET stats == GetLibraryStats
    IN  IF stats = <<>>
        THEN [voice |-> voice, ops |-> done]
        ELSE LET c == CreateLoop(stats, voice, {}, done, fail)
             IN  CleanupLoop(c.voice, c.valid, <<>>, c.ops, fail)

NoChannel   == "none"
PlainRecent == "recently-added"
EmojiRecent == "i-recently-added"

\* MediaBot.update_recently_added, with get_recently_added_channel
update_recently_added(done, fail, now) ==
    LET failed1 == Fails(done, fail)
        ops1 == IF recentName = NoChannel
                THEN Append(done, Op("create_text_channel", "recent", ~failed1))
                ELSE IF recentName /= EmojiRecent
                THEN Append(done, Op("edit_channel_name", "recent", ~failed1))
                ELSE done
        name1 == IF recentName = EmojiRecent \/ failed1 THEN recentName
                 ELSE EmojiRecent
        items == GetRecentlyAdded(now)
        unchanged == [ name |-> name1, msgs |-> recentMsgs,
                       handle |-> recently_added_message, ops |-> ops1 ]
    IN  IF name1 = NoChannel \/ items = <<>>
           \/ \E i \in 1..Len(items) : ~ItemReadable(items[i])
        THEN unchanged
        ELSE LET embed == RecentEmbed(items)
                 w == IF recently_added_message /= "None"
                      THEN EditHeld(recentMsgs, recently_added_message, embed,
                                    "recent", ops1, fail)
                      ELSE SendNew(recentMsgs, recently_added_message, embed,
                                   "recent", ops1, fail)
             IN  [ name |-> name1, msgs |-> w.msgs, handle |-> w.handle,
                   ops |-> w.ops ]

(***************************************************************************)
(* Initial state: a fresh MediaBot (__init__) against some media server    *)
(* and an empty guild                                                      *)
(***************************************************************************)
Tasks == 1..MaxTasks

\* _run_status_updates, except branch: await asyncio.sleep(5)
BackoffSeconds == 5

\* no caller has awaited get_all_stream_info yet
NoStats == [raised |-> FALSE, value |-> <<>>]

Init ==
    /\ adapter \in {"emby", "jellyfin"}
    /\ prefixed = FALSE
    /\ widthKnown = TRUE
    /\ base_url = Configured
    /\ folders \in {<<>>, FolderPool}
    /\ itemCount = [id \in {1, 2} |-> 7]
    /\ rawSessions \in {<<>>, <<PlayingSession>>}
    /\ rawLatest \in {<<>>, <<LatestEpisode, LatestMovie>>}
    /\ reachable = TRUE
    /\ countFails = {}
    /\ refresh_seconds = DefaultRefreshSeconds
    /\ snapshot = NoStats
    /\ voice = <<>>
    /\ statusExists = FALSE
    /\ statusMsgs = <<>>
    /\ recentName = NoChannel
    /\ recentMsgs = <<>>
    /\ status_message = "None"
    /\ recently_added_message = "None"
    /\ setupDone = FALSE
    /\ ready = FALSE
    /\ closed = FALSE
    /\ pc = [t \in Tasks |-> "none"]
    /\ ops = <<>>
    /\ planned = <<>>
    /\ envLeft = MaxEnv
    /\ faultsLeft = MaxFaults

\* what the status channel holds when the process starts: nothing (no channel
\* yet), or the message an earlier run of the bot left there, written while
\* nothing was playing
EarlierStatus ==
    {<<>>} \cup { <<Msg("bot", StatusEmbed(<<>>, now), FALSE)>> : now \in Clock }

\* a new bot, in an empty guild or in the guild of an earlier run, for every
\* configuration and every answer of the media server: both clients, the
\* server reachable or not, count requests of some libraries failing, the
\* wider record pools
AdapterInit ==
    /\ adapter \in {"emby", "jellyfin"}
    /\ prefixed \in (IF adapter = "jellyfin" THEN BOOLEAN ELSE {FALSE})
    /\ widthKnown \in (IF adapter = "emby" THEN BOOLEAN ELSE {TRUE})
    /\ base_url = Configured
    /\ folders \in WideFolderLists
    /\ itemCount = [id \in 1..8 |-> WideCounts[id]]
    /\ rawSessions \in WideSessionLists
    /\ rawLatest = <<>>
    /\ reachable \in BOOLEAN
    /\ countFails \in SUBSET {folders[i].Id : i \in 1..Len(folders)}
    /\ refresh_seconds \in RefreshChoices
    /\ snapshot = NoStats
    /\ voice = <<>>
    /\ statusMsgs \in EarlierStatus
    /\ statusExists = (statusMsgs /= <<>>)
    /\ recentName = NoChannel
    /\ recentMsgs = <<>>
    /\ status_message = "None"
    /\ recently_added_message = "None"
    /\ setupDone = FALSE
    /\ ready = FALSE
    /\ closed = FALSE
    /\ pc = [t \in Tasks |-> "none"]
    /\ ops = <<>>
    /\ planned = <<>>
    /\ envLeft = 0
    /\ faultsLeft = 0

(***************************************************************************)
(* The client and its loop task                                            *)
(***************************************************************************)
\* a setup_hook that runs again while a loop task exists (the task creation
\* moved to a handler that is called at every reconnect)
SetupHookAtEveryReady ==
    /\ \E t \in Tasks :
         /\ pc[t] = "none"
         /\ \A u \in Tasks : u < t => pc[u] /= "none"
         /\ pc' = [pc EXCEPT ![t] = "wait_ready"]
    /\ setupDone' = TRUE
    /\ UNCHANGED <<upstreamVars, hostVars, voiceVars, statusVars, recentVars, ready, closed,
                   ops, planned, envLeft, faultsLeft>>
    /\ base_url' = AfterGet

\* MediaBot.setup_hook: discord.py calls it once, at login; it creates the
\* one task that runs status_update_loop
SetupHook ==
    /\ ~setupDone
    /\ \E t \in Tasks :
         /\ pc[t] = "none"
         /\ \A u \in Tasks : u < t => pc[u] /= "none"
         /\ pc' = [pc EXCEPT ![t] = "wait_ready"]
    /\ setupDone' = TRUE
    /\ UNCHANGED <<upstreamVars, hostVars, voiceVars, statusVars, recentVars, ready, closed,
                   ops, planned, envLeft, faultsLeft>>
    /\ base_url' = AfterGet

\* MediaBot.on_ready: the gateway reports the client ready (again at every
\* reconnect).  Its one chat operation deletes a text channel named exactly
\* 'media-status', which is not a channel the loop manages (the status channel
\* carries an emoji prefix, recently-added another name): the guild of this
\* model has no such channel.
OnReady ==
    /\ setupDone
    /\ ~closed
    /\ ready' = TRUE
    /\ UNCHANGED <<upstreamVars, hostVars, clientVars, voiceVars, statusVars, recentVars, setupDone,
                   closed, pc, ops, planned, envLeft, faultsLeft>>

\* status_update_loop: await self.wait_until_ready()
WaitUntilReady(t) ==
    /\ pc[t] = "wait_ready"
    /\ ready
    /\ pc' = [pc EXCEPT ![t] = "check"]
    /\ UNCHANGED <<upstreamVars, hostVars, clientVars, voiceVars, statusVars, recentVars, setupDone,
                   ready, closed, ops, planned, envLeft, faultsLeft>>

\* _run_status_updates: while not self.is_closed()
LoopCheck(t) ==
    /\ pc[t] = "check"
    /\ pc' = [pc EXCEPT ![t] = IF closed THEN "done" ELSE "status"]
    /\ UNCHANGED <<upstreamVars, hostVars, clientVars, voiceVars, statusVars, recentVars, setupDone,
                   ready, closed, ops, planned, envLeft, faultsLeft>>

\* the operations a step issued, given the operations before it
Issued(before, after) == SubSeq(after, Len(before) + 1, Len(after))

\* which operation of a step may be made to fail: none, or one the step issues
FaultChoice(fail, faultFree) ==
    \/ fail = 0
    \/ /\ faultsLeft > 0
       /\ fail \in (Len(ops) + 1)..Len(faultFree)

Charge(fail) ==
    faultsLeft' = IF fail = 0 THEN faultsLeft ELSE faultsLeft - 1

\* await self.update_status()
UpdateStatus(t) ==
    /\ pc[t] = "status"
    /\ \E now \in Clock :
         LET faultFree == update_status(ops, 0, now).ops
         IN  \E fail \in 0..Len(faultFree) :
               /\ FaultChoice(fail, faultFree)
               /\ LET r == update_status(ops, fail, now)
                  IN  /\ statusExists' = r.exists
                      /\ statusMsgs' = r.msgs
                      /\ status_message' = r.handle
                      /\ ops' = r.ops
               /\ planned' = planned \o Issued(ops, faultFree)
               /\ Charge(fail)
    /\ pc' = [pc EXCEPT ![t] = "library"]
    /\ UNCHANGED <<upstreamVars, hostVars, voiceVars, recentVars, setupDone, ready, closed,
                   envLeft>>
    /\ base_url' = IF statusExists' THEN AfterGet ELSE base_url

\* a loop that looks at is_closed() between two steps of a cycle and ends there
UpdateLibraryStatsUnlessClosed(t) ==
    /\ pc[t] = "library"
    /\ IF closed
       THEN /\ pc' = [pc EXCEPT ![t] = "done"]
            /\ UNCHANGED <<voice, ops, planned, faultsLeft>>
       ELSE /\ LET faultFree == update_library_stats(ops, 0).ops
               IN  \E fail \in 0..Len(faultFree) :
                     /\ FaultChoice(fail, faultFree)
                     /\ LET r == update_library_stats(ops, fail)
                        IN  /\ voice' = r.voice
                            /\ ops' = r.ops
                     /\ planned' = planned \o Issued(ops, faultFree)
                     /\ Charge(fail)
            /\ pc' = [pc EXCEPT ![t] = "recent"]
    /\ UNCHANGED <<upstreamVars, hostVars, statusVars, recentVars, setupDone, ready, closed,
                   envLeft>>
    /\ base_url' = AfterGet

\* await self.update_library_stats()
UpdateLibraryStats(t) ==
    /\ pc[t] = "library"
    /\ LET faultFree == update_library_stats(ops, 0).ops
       IN  \E fail \in 0..Len(faultFree) :
             /\ FaultChoice(fail, faultFree)
             /\ LET r == update_library_stats(ops, fail)
                IN  /\ voice' = r.voice
                    /\ ops' = r.ops
             /\ planned' = planned \o Issued(ops, faultFree)
             /\ Charge(fail)
    /\ pc' = [pc EXCEPT ![t] = "recent"]
    /\ UNCHANGED <<upstreamVars, hostVars, statusVars, recentVars, setupDone, ready, closed,
                   envLeft>>
    /\ base_url' = AfterGet

\* await self.update_recently_added()
UpdateRecentlyAdded(t) ==
    /\ pc[t] = "recent"
    /\ \E now \in Clock :
         LET faultFree == update_recently_added(ops, 0, now).ops
         IN  \E fail \in 0..Len(faultFree) :
               /\ FaultChoice(fail, faultFree)
               /\ LET r == update_recently_added(ops, fail, now)
                  IN  /\ recentName' = r.name
                      /\ recentMsgs' = r.msgs
                      /\ recently_added_message' = r.handle
                      /\ ops' = r.ops
               /\ planned' = planned \o Issued(ops, faultFree)
               /\ Charge(fail)
    /\ pc' = [pc EXCEPT ![t] = "sleep"]
    /\ UNCHANGED <<upstreamVars, hostVars, clientVars, voiceVars, statusVars, setupDone, ready, closed,
                   envLeft>>

\* a loop without its try/except around a step that re-raises: a cycle in
\* which an operation failed ends the task instead of sleeping
SleepUnlessFailed(t) ==
    /\ pc[t] = "sleep"
    /\ pc' = [pc EXCEPT ![t] = IF \E k \in 1..Len(ops) : ~ops[k].ok
                               THEN "done" ELSE "check"]
    /\ ops' = <<>>
    /\ planned' = <<>>
    /\ UNCHANGED <<upstreamVars, hostVars, clientVars, voiceVars, statusVars, recentVars, setupDone,
                   ready, closed, envLeft, faultsLeft>>

\* await asyncio.sleep(self.config.general.refresh_seconds)
Sleep(t) ==
    /\ pc[t] = "sleep"
    /\ pc' = [pc EXCEPT ![t] = "check"]
    /\ ops' = <<>>
    /\ planned' = <<>>
    /\ UNCHANGED <<upstreamVars, hostVars, clientVars, voiceVars, statusVars, recentVars, setupDone,
                   ready, closed, envLeft, faultsLeft>>

(***************************************************************************)
(* The environment: the media server's data changes, people edit the       *)
(* guild, the process is restarted: these events fall between two cycles.  *)
(* The client is closed at any moment.                                     *)
(***************************************************************************)
InCycle == {"status", "library", "recent"}

\* no task is inside a cycle, and one is between two cycles
Quiet ==
    /\ \A t \in Tasks : pc[t] \notin InCycle \cup {"sleep"}
    /\ \E t \in Tasks : pc[t] = "check"

External ==
    /\ envLeft > 0
    /\ Quiet
    /\ envLeft' = envLeft - 1
    /\ UNCHANGED <<ops, planned, faultsLeft>>

UpstreamChange ==
    /\ External
    /\ \/ \E id \in DOMAIN itemCount : \E c \in Counts \ {itemCount[id]} :
            /\ itemCount' = [itemCount EXCEPT ![id] = c]
            /\ UNCHANGED <<folders, rawSessions, rawLatest>>
       \/ /\ folders' \in FolderLists \ {folders}
          /\ UNCHANGED <<itemCount, rawSessions, rawLatest>>
       \/ /\ rawSessions' \in SessionLists \ {rawSessions}
          /\ UNCHANGED <<folders, itemCount, rawLatest>>
       \/ /\ rawLatest' \in LatestLists \ {rawLatest}
          /\ UNCHANGED <<folders, itemCount, rawSessions>>
    /\ UNCHANGED <<adapter, reachable, countFails, prefixed, widthKnown, hostVars,
                   clientVars,
                   voiceVars, statusVars, recentVars, loopVars>>

\* names a person gives a voice channel of the category
HumanNames == {"Lounge"}

HumanEditsVoice ==
    /\ External
    /\ \/ \E name \in HumanNames : voice' = Append(voice, name)
       \/ \E j \in 1..Len(voice) : \E name \in HumanNames \ {voice[j]} :
            voice' = [voice EXCEPT ![j] = name]
       \/ \E j \in 1..Len(voice) :
            voice' = SubSeq(voice, 1, j - 1) \o SubSeq(voice, j + 1, Len(voice))
    /\ UNCHANGED <<upstreamVars, hostVars, clientVars, statusVars, recentVars, loopVars>>

\* msgs without its j-th message; the handle of the bot when that message
\* was the one it holds
Without(msgs, j) == SubSeq(msgs, 1, j - 1) \o SubSeq(msgs, j + 1, Len(msgs))

Orphaned(msgs, j, handle) == IF msgs[j].held THEN "gone" ELSE handle

HumanEditsStatus ==
    /\ External
    /\ statusExists
    /\ \/ /\ statusMsgs' = Append(statusMsgs, Msg("other", "hello", FALSE))
          /\ UNCHANGED <<statusExists, status_message>>
       \/ \E j \in 1..Len(statusMsgs) :
            /\ statusMsgs' = Without(statusMsgs, j)
            /\ status_message' = Orphaned(statusMsgs, j, status_message)
            /\ UNCHANGED statusExists
       \/ /\ statusExists' = FALSE
          /\ statusMsgs' = <<>>
          /\ status_message' = IF status_message = "live" THEN "gone"
                               ELSE status_message
    /\ UNCHANGED <<upstreamVars, hostVars, clientVars, voiceVars, recentVars, loopVars>>

HumanEditsRecent ==
    /\ External
    /\ recentName /= NoChannel
    /\ \/ /\ recentMsgs' = Append(recentMsgs, Msg("other", "hello", FALSE))
          /\ UNCHANGED <<recentName, recently_added_message>>
       \/ \E j \in 1..Len(recentMsgs) :
            /\ recentMsgs' = Without(recentMsgs, j)
            /\ recently_added_message' =
                   Orphaned(recentMsgs, j, recently_added_message)
            /\ UNCHANGED recentName
       \/ /\ recentName' = NoChannel
          /\ recentMsgs' = <<>>
          /\ recently_added_message' =
                 IF recently_added_message = "live" THEN "gone"
                 ELSE recently_added_message
       \/ /\ recentName = EmojiRecent
          /\ recentName' = PlainRecent
          /\ UNCHANGED <<recentMsgs, recently_added_message>>
    /\ UNCHANGED <<upstreamVars, hostVars, clientVars, voiceVars, statusVars, loopVars>>

Release(msgs) == [j \in 1..Len(msgs) |-> [msgs[j] EXCEPT !.held = FALSE]]

\* the process is restarted: a new MediaBot (__init__) in the same guild
Restart ==
    /\ External
    /\ setupDone
    /\ status_message' = "None"
    /\ recently_added_message' = "None"
    /\ statusMsgs' = Release(statusMsgs)
    /\ recentMsgs' = Release(recentMsgs)
    /\ setupDone' = FALSE
    /\ ready' = FALSE
    /\ closed' = FALSE
    /\ pc' = [t \in Tasks |-> "none"]
    /\ UNCHANGED <<upstreamVars, hostVars, voiceVars, statusExists, recentName>>
    /\ base_url' = Configured

\* MediaBot.close(), at any moment (also while a cycle runs): it closes the
\* media clients, then discord.Client.close() makes is_closed() true.  EmbyClient
\* has no close method: with the Emby client the call raises AttributeError
\* before discord.Client.close() is reached, and is_closed() stays false
Close ==
    /\ envLeft > 0
    /\ setupDone
    /\ ~closed
    /\ closed' = (adapter = "jellyfin")
    /\ envLeft' = envLeft - 1
    /\ UNCHANGED <<upstreamVars, hostVars, clientVars, voiceVars, statusVars, recentVars, setupDone,
                   ready, pc, ops, planned, faultsLeft>>

Next ==
    \/ SetupHook
    \/ OnReady
    \/ \E t \in Tasks : WaitUntilReady(t)
    \/ \E t \in Tasks : LoopCheck(t)
    \/ \E t \in Tasks : UpdateStatus(t)
    \/ \E t \in Tasks : UpdateLibraryStats(t)
    \/ \E t \in Tasks : UpdateRecentlyAdded(t)
    \/ \E t \in Tasks : Sleep(t)
    \/ UpstreamChange
    \/ HumanEditsVoice
    \/ HumanEditsStatus
    \/ HumanEditsRecent
    \/ Restart
    \/ Close

Spec == Init /\ [][Next]_vars

\* stats = await self.emby.get_all_stream_info(): a caller outside the loop
\* takes the server snapshot of the Emby client
Snapshot ==
    /\ adapter = "emby"
    /\ setupDone
    /\ snapshot' = get_all_stream_info
    /\ UNCHANGED <<upstreamVars, refresh_seconds, clientVars, voiceVars, statusVars,
                   recentVars, loopVars, ops, planned, envLeft, faultsLeft>>

\* the media server comes back, between two cycles
ServerRecovers ==
    /\ ~reachable
    /\ \A t \in Tasks : pc[t] \notin InCycle \cup {"sleep"}
    /\ reachable' = TRUE
    /\ UNCHANGED <<adapter, folders, itemCount, rawSessions, rawLatest, countFails,
                   prefixed, widthKnown, hostVars, clientVars, voiceVars, statusVars, recentVars,
                   loopVars, ops, planned, envLeft, faultsLeft>>

\* the loop alone, with nobody touching the guild and no operation failing
PollNext ==
    \/ SetupHook
    \/ OnReady
    \/ \E t \in Tasks : WaitUntilReady(t)
    \/ \E t \in Tasks : LoopCheck(t)
    \/ \E t \in Tasks : UpdateStatus(t)
    \/ \E t \in Tasks : UpdateLibraryStats(t)
    \/ \E t \in Tasks : UpdateRecentlyAdded(t)
    \/ \E t \in Tasks : Sleep(t)
    \/ Snapshot
    \/ ServerRecovers

AdapterSpec == AdapterInit /\ [][PollNext]_vars

TypeOK ==
    /\ status_message \in Handles
    /\ recently_added_message \in Handles
    /\ (status_message = "live") = (\E j \in 1..Len(statusMsgs) : statusMsgs[j].held)
    /\ (recently_added_message = "live")
           = (\E j \in 1..Len(recentMsgs) : recentMsgs[j].held)
    /\ ~statusExists => statusMsgs = <<>>
    /\ recentName = NoChannel => recentMsgs = <<>>
    /\ envLeft \in 0..MaxEnv
    /\ faultsLeft \in 0..MaxFaults
    /\ reachable \in BOOLEAN
    /\ countFails \subseteq {folders[i].Id : i \in 1..Len(folders)}
    /\ refresh_seconds \in Nat \ {0}
    /\ snapshot.raised \in BOOLEAN
    /\ prefixed \in BOOLEAN
    /\ widthKnown \in BOOLEAN
    /\ base_url \in {Configured, WithPrefix}

(***************************************************************************)
(* The desired state of the guild, from the media server's data            *)
(***************************************************************************)
\* a library summary of either adapter, under the keys the bot reads
Summary(library) ==
    IF Readable(library) THEN library
    ELSE [ name     |-> library.Name,
           type     |-> library.Type,
           count    |-> library.ItemCount,
           is_4k    |-> library.Is4K,
           is_kids  |-> library.IsKids,
           is_anime |-> library.IsAnime ]

\* one voice channel per library summary of the active client
DesiredNames ==
    LET stats == GetLibraryStats
    IN  { ChannelName(Summary(stats[i])) : i \in 1..Len(stats) }

VoiceNames == { voice[j] : j \in 1..Len(voice) }

\* the sessions the status message is to show: the playing ones
ActiveSessions == EmbyActive(rawSessions)

HeldEmbed(msgs) == msgs[HeldIndex(msgs)].embed

StatusConverged ==
    /\ statusExists
    /\ status_message = "live"
    /\ \E now \in Clock : HeldEmbed(statusMsgs) = StatusEmbed(ActiveSessions, now)

LibrariesConverged ==
    /\ VoiceNames = DesiredNames
    /\ Len(voice) = Cardinality(DesiredNames)

RecentConverged ==
    /\ recentName = EmojiRecent
    /\ rawLatest /= <<>> =>
         /\ recently_added_message = "live"
         /\ HeldEmbed(recentMsgs) = RecentEmbed(JellyfinGetRecentlyAdded(rawLatest, 10))

\* the guild shows the desired state and both message handles are held
Converged == StatusConverged /\ LibrariesConverged /\ RecentConverged

Running == \E t \in Tasks : pc[t] \in InCycle

(***************************************************************************)
(* C1  Idempotence: a cycle that runs on a guild which already shows the   *)
(* desired state, with unchanged upstream data, issues no chat operation   *)
(* (no create, no edit, no delete, no send).                               *)
(***************************************************************************)
C1_Idempotent ==
    [][(/\ Converged
        /\ DesiredNames /= {}
        /\ recently_added_message = "live"
        /\ Running) => ops' = ops]_vars

(***************************************************************************)
(* C2  Key stability: a library's voice channel is matched by kind and     *)
(* flags, not by item count.  When a channel of the library exists (under  *)
(* whatever count), update_library_stats neither creates a channel for     *)
(* that library nor deletes one of its channels.                           *)
(***************************************************************************)
\* the part of a channel name that kind, flags and library name decide
ChannelKey(library) == ChannelName([library EXCEPT !.count = 0])

KeyOf(name) == Prefix(name, Len(name) - 1)

\* name is a channel of the library, under some count
BelongsTo(name, library) ==
    LET key == KeyOf(ChannelKey(library))
    IN  Prefix(name, Len(key)) = key

LibraryStep == \E t \in Tasks : pc[t] = "library" /\ pc'[t] = "recent"

C2_KeyStable ==
    [][LibraryStep =>
         LET stats  == GetLibraryStats
             issued == Issued(ops, ops')
         IN  \A i \in 1..Len(stats) :
               (\E j \in 1..Len(voice) : BelongsTo(voice[j], Summary(stats[i])))
                 => \A k \in 1..Len(issued) :
                      ~BelongsTo(issued[k].target, Summary(stats[i]))]_vars

(***************************************************************************)
(* C4  Reconcile result: after update_library_stats has run on a non-empty *)
(* library list without a failing chat operation, the names of the         *)
(* category's voice channels are exactly the desired names.                *)
(***************************************************************************)
AfterLibraryStep == \E t \in Tasks : pc[t] = "recent"

AllOk == \A k \in 1..Len(ops) : ops[k].ok

C4_ReconcileResult ==
    (AfterLibraryStep /\ AllOk /\ GetLibraryStats /= <<>>)
        => VoiceNames = DesiredNames

(***************************************************************************)
(* C6  One voice channel per library summary, for either adapter: after    *)
(* update_library_stats without chat failures every library the active     *)
(* adapter reports has its channel, and none of them was deleted.          *)
(***************************************************************************)
C6_ChannelPerLibrary ==
    (AfterLibraryStep /\ AllOk)
        => /\ DesiredNames \subseteq VoiceNames
           /\ \A k \in 1..Len(ops) :
                ops[k].op = "delete_voice_channel"
                    => \A i \in 1..Len(GetLibraryStats) :
                         ~BelongsTo(ops[k].target, Summary(GetLibraryStats[i]))

(***************************************************************************)
(* C7  Exactly one status message: after update_status has run with the    *)
(* status channel available and no failing chat operation, the channel     *)
(* holds exactly one message of the bot; with zero active sessions its     *)
(* body is the placeholder and it has no per-session field.                *)
(***************************************************************************)
AfterStatusStep == \E t \in Tasks : pc[t] = "library"

OwnMessages(msgs) == { j \in 1..Len(msgs) : msgs[j].author = "bot" }

C7_OneStatusMessage ==
    (AfterStatusStep /\ AllOk /\ statusExists)
        => /\ Cardinality(OwnMessages(statusMsgs)) = 1
           /\ ActiveSessions = <<>> =>
                \A j \in OwnMessages(statusMsgs) :
                    /\ statusMsgs[j].embed.description = NoStreams
                    /\ statusMsgs[j].embed.fields = <<>>

(***************************************************************************)
(* C8  No duplicate messages across restarts: while no handle is held and  *)
(* a message of the bot is in the recent history of the channel, the bot   *)
(* sends no further message there: the number of its messages in the       *)
(* channel does not grow.  For the status and the recently-added channel.  *)
(***************************************************************************)
C8_NoDuplicateMessage ==
    [][/\ (status_message = "None" /\ LastOwn(statusMsgs, HistoryLimit) /= 0)
            => Cardinality(OwnMessages(statusMsgs'))
                 <= Cardinality(OwnMessages(statusMsgs))
       /\ (recently_added_message = "None"
             /\ LastOwn(recentMsgs, HistoryLimit) /= 0)
            => Cardinality(OwnMessages(recentMsgs'))
                 <= Cardinality(OwnMessages(recentMsgs))]_vars

(***************************************************************************)
(* C3  Fault isolation.  At the end of a cycle in which exactly one chat   *)
(* operation failed, compare the operations issued with the operations the *)
(* same steps issue when nothing is made to fail.                          *)
(***************************************************************************)
AtCycleEnd == \E t \in Tasks : pc[t] = "sleep"

Failed == { k \in 1..Len(ops) : ~ops[k].ok }

OneFailed == Cardinality(Failed) = 1

FailedAt == CHOOSE k \in Failed : TRUE

SameOp(a, b) == a.op = b.op /\ a.target = b.target

Occurrences(name) == Cardinality({ j \in 1..Len(voice) : voice[j] = name })

FailedDeletes(name) ==
    Cardinality({ k \in Failed : ops[k].op = "delete_voice_channel"
                                   /\ ops[k].target = name })

\* the effect of a successful operation, read off the guild at the cycle's end
Effect(o) ==
    CASE o.op = "create_text_channel" ->
             IF o.target = "status" THEN statusExists ELSE recentName /= NoChannel
      [] o.op = "edit_channel_name" -> recentName = EmojiRecent
      [] o.op = "create_voice_channel" -> o.target \in VoiceNames
      [] o.op = "delete_voice_channel" ->
             Occurrences(o.target) = FailedDeletes(o.target)
      [] o.op \in {"send", "edit"} ->
             IF o.target = "status"
             THEN /\ status_message = "live"
                  /\ \E now \in Clock :
                       HeldEmbed(statusMsgs) = StatusEmbed(GetSessions.value, now)
             ELSE /\ recently_added_message = "live"
                  /\ \E now \in Clock :
                       HeldEmbed(recentMsgs) = RecentEmbed(GetRecentlyAdded(now))

IssuedAndEffective(expected) ==
    /\ Len(ops) = Len(expected)
    /\ \A k \in 1..Len(ops) :
         /\ SameOp(ops[k], expected[k])
         /\ ops[k].ok => Effect(ops[k])

\* C3 as stated: with exactly one failed operation, every operation of the
\* fault-free cycle is issued, and the successful ones have taken effect
C3_FaultIsolation ==
    (AtCycleEnd /\ OneFailed) => IssuedAndEffective(planned)

\* the message written into a text channel follows that channel's creation:
\* when the creation fails there is no channel to write to
DependsOnFailed(k) ==
    /\ k = FailedAt + 1
    /\ k <= Len(planned)
    /\ ops[FailedAt].op = "create_text_channel"
    /\ planned[k].op \in {"send", "edit"}
    /\ planned[k].target = ops[FailedAt].target

Independent ==
    IF DependsOnFailed(FailedAt + 1)
    THEN SubSeq(planned, 1, FailedAt) \o SubSeq(planned, FailedAt + 2, Len(planned))
    ELSE planned

\* C3 amended: with exactly one failed operation, every operation of the
\* fault-free cycle is issued and effective, except the message write into a
\* text channel whose creation was the operation that failed
C3_FaultIsolationIndependent ==
    (AtCycleEnd /\ OneFailed) => IssuedAndEffective(Independent)

\* a cycle in which one operation failed and later ones were issued with success
C3_Witness ==
    /\ AtCycleEnd
    /\ OneFailed
    /\ \E k \in 1..Len(ops) : k > FailedAt /\ ops[k].ok
    /\ \E k \in 1..Len(ops) : ops[k].op = "delete_voice_channel"

(***************************************************************************)
(* C5  Operation order: among the voice channel operations of one          *)
(* update_library_stats run every creation comes before every deletion; no *)
(* deletion is followed by a creation or an update.                        *)
(***************************************************************************)
VoiceUpdates == {"create_voice_channel", "edit_voice_channel"}

C5_CreatesBeforeDeletes ==
    \A i \in 1..Len(ops) : \A k \in 1..Len(ops) :
        (i < k /\ ops[i].op = "delete_voice_channel")
            => ops[k].op \notin VoiceUpdates

\* a run that both created and deleted a channel
C5_Witness ==
    /\ \E i \in 1..Len(ops) : ops[i].op = "create_voice_channel"
    /\ \E k \in 1..Len(ops) : ops[k].op = "delete_voice_channel"

(***************************************************************************)
(* C9  Eventual convergence: once the media server's data and the guild    *)
(* are left alone and operations no longer fail, the cycles reach the      *)
(* desired state and stay there (unless the client was closed).            *)
(***************************************************************************)
\* where a step of status_update_loop takes the task that runs it
Continue(t) ==
    CASE pc[t] = "wait_ready" -> "check"
      [] pc[t] = "check"      -> IF closed THEN "done" ELSE "status"
      [] pc[t] = "status"     -> "library"
      [] pc[t] = "library"    -> "recent"
      [] pc[t] = "recent"     -> "sleep"
      [] pc[t] = "sleep"      -> "check"
      [] OTHER                -> pc[t]

\* the loop task moves on: one of WaitUntilReady, LoopCheck, UpdateStatus,
\* UpdateLibraryStats, UpdateRecentlyAdded, Sleep, seen from the task's position
Advance ==
    \E t \in Tasks :
        /\ pc[t] = "wait_ready" => ready
        /\ pc' = [pc EXCEPT ![t] = Continue(t)]

\* the event loop starts the client, and runs a task that can run
FairSpec ==
    Spec /\ WF_vars(SetupHook) /\ WF_vars(OnReady) /\ WF_pc(Advance)

\* every record the active client returns is one the bot can read: the
\* Jellyfin client with no session that plays something
RecordsReadable == adapter = "jellyfin" /\ ~GetSessions.raised

\* C9 is stated where the records are readable, so that what is left to fail
\* is the reconciliation of the guild itself.  An empty library list is taken for an outage (update_library_stats returns
\* at once): it asks for nothing
Settled ==
    /\ StatusConverged
    /\ GetLibraryStats /= <<>> => LibrariesConverged
    /\ RecentConverged

C9_EventuallyConverged == <>[](closed \/ ~RecordsReadable \/ Settled)

(***************************************************************************)
(* C10  No overlapping cycles: at most one task is inside a cycle, and a   *)
(* cycle starts only when no cycle is in progress.                         *)
(***************************************************************************)
C10_NoOverlap ==
    /\ Cardinality({ t \in Tasks : pc[t] \in InCycle \cup {"sleep"} }) <= 1
    /\ Cardinality({ t \in Tasks : pc[t] \notin {"none", "done"} }) <= 1

\* a cycle that started after a cycle in which an operation had failed
C10_Witness ==
    /\ \E t \in Tasks : pc[t] = "status"
    /\ faultsLeft < MaxFaults


(***************************************************************************)
(* C11  The poll loop never dies from an error: the task that runs the     *)
(* loop ends only when the client is closed, and after every cycle, with   *)
(* failed operations or an adapter exception in it or not, another cycle   *)
(* starts unless the client is closed.                                     *)
(***************************************************************************)
LoopEndsOnlyClosed == \A t \in Tasks : pc[t] = "done" => closed

CycleStarts == \E t \in Tasks : pc[t] = "status"

C11_LoopSurvives ==
    /\ []LoopEndsOnlyClosed
    /\ AtCycleEnd ~> (closed \/ CycleStarts)

\* the end of a cycle in which the adapter raised and a chat operation failed
C11_Witness == AtCycleEnd /\ Failed /= {} /\ GetSessions.raised


(***************************************************************************)
(* C12  Backoff delay: the fixed delay the loop sleeps after a cycle-level *)
(* exception is strictly shorter than the regular delay between cycles,    *)
(* for the configured refresh interval (its default included).             *)
(***************************************************************************)
C12_BackoffShorter == BackoffSeconds < refresh_seconds


(***************************************************************************)
(* C13  Cooperative cancellation: is_closed() is looked at only between    *)
(* two cycles.  A task inside a cycle goes on to the next step whether the *)
(* client is closed or not and reaches the end of the cycle; a cycle       *)
(* starts only while the client is not closed; a task that saw the client  *)
(* closed starts no cycle again.                                           *)
(***************************************************************************)
CycleRunsOn ==
    \A t \in Tasks :
        /\ (pc[t] \in InCycle /\ pc'[t] /= pc[t]) => pc'[t] = Continue(t)
        /\ (pc[t] /= "status" /\ pc'[t] = "status") => (pc[t] = "check" /\ ~closed)
        /\ pc[t] = "done" => pc'[t] \in {"done", "none"}

C13_Cooperative ==
    /\ [][CycleRunsOn]_vars
    /\ (\E t \in Tasks : pc[t] \in InCycle) ~> AtCycleEnd

\* the client was closed after the cycle started, and the task is at the last
\* step of that cycle
C13_Witness == closed /\ \E t \in Tasks : pc[t] = "recent"


(***************************************************************************)
(* C14  A total outage of the media server is a failure of get_sessions,   *)
(* for both clients, not an empty session list: after the status step of   *)
(* a cycle in which the server cannot be reached, the call has raised to   *)
(* its caller and no status message of the bot says "No active streams".   *)
(***************************************************************************)
C14_OutageIsFailure ==
    (~reachable /\ AfterStatusStep)
        => /\ GetSessions.raised
           /\ \A j \in OwnMessages(statusMsgs) :
                  statusMsgs[j].embed.description /= NoStreams

(***************************************************************************)
(* C15  Record-level fault isolation (Emby client; the Jellyfin client      *)
(* raises for every record that plays something): when the session list    *)
(* holds one malformed record among well-formed ones, get_sessions does    *)
(* not raise and returns the sessions of all well-formed active records.   *)
(***************************************************************************)
WellFormed(session) ==
    PositionKind(session) = "number" /\ RunTimeKind(session) = "number"

OneMalformed(sessions) ==
    Cardinality({ i \in 1..Len(sessions) : ~WellFormed(sessions[i]) }) = 1

C15_RecordIsolation ==
    (adapter = "emby" /\ reachable /\ AfterStatusStep /\ OneMalformed(rawSessions))
        => /\ ~GetSessions.raised
           /\ GetSessions.value = EmbyActive(SelectSeq(rawSessions, WellFormed))

(***************************************************************************)
(* C16  The same active-session rule in both clients: a session is in the  *)
(* result of get_sessions only if it plays an item at a nonzero position.  *)
(* A list of well-formed records none of which is active (a playing item   *)
(* at position 0, an idle session) gives the empty list, without raising.  *)
(***************************************************************************)
Active(session) == HasItem(session) /\ session.PlayState.PositionTicks > 0

NoneActive(sessions) ==
    \A i \in 1..Len(sessions) : WellFormed(sessions[i]) /\ ~Active(sessions[i])

C16_SameActiveRule ==
    (reachable /\ AfterStatusStep /\ NoneActive(rawSessions))
        => GetSessions = Returned(<<>>)

(***************************************************************************)
(* C17  A library whose count request fails is left out of the result of   *)
(* get_library_stats, for both clients: no summary carries its name.       *)
(***************************************************************************)
SummaryNames ==
    LET stats == GetLibraryStats
    IN  { Summary(stats[i]).name : i \in 1..Len(stats) }

C17_FailedCountOmitted ==
    (reachable /\ AfterLibraryStep)
        => \A i \in 1..Len(folders) :
               folders[i].Id \in countFails => folders[i].Name \notin SummaryNames

(***************************************************************************)
(* C18  Conservation in the server snapshot: get_all_stream_info returns a *)
(* snapshot whose total bandwidth is the sum of the LAN and the remote     *)
(* bandwidth and whose transcoding count is the number of its sessions     *)
(* that are transcoding.                                                   *)
(***************************************************************************)
Transcoding(streams) == { i \in 1..Len(streams) : streams[i].transcoding }

C18_Conservation ==
    (reachable /\ snapshot /= NoStats)
        => /\ ~snapshot.raised
           /\ snapshot.value.total_bandwidth
                  = snapshot.value.lan_bandwidth + snapshot.value.remote_bandwidth
           /\ snapshot.value.transcoding_streams
                  = Cardinality(Transcoding(snapshot.value.streams))

(***************************************************************************)
(* C19  Truncation safety: no name or body handed to the chat platform is  *)
(* longer than its surface allows: every name passed to                    *)
(* create_voice_channel has at most 100 characters, and every field name   *)
(* of a status message of the bot is within the limit of an embed field.   *)
(***************************************************************************)
C19_TruncationSafe ==
    /\ \A k \in 1..Len(ops) :
          ops[k].op = "create_voice_channel" => Len(ops[k].target) <= NameLimit
    /\ \A j \in OwnMessages(statusMsgs) :
          \A i \in 1..Len(statusMsgs[j].embed.fields) :
              Len(statusMsgs[j].embed.fields[i].name) <= FieldNameLimit

\* the part of C19 about channel names alone
VoiceNamesWithinLimit ==
    /\ \A k \in 1..Len(ops) :
          ops[k].op = "create_voice_channel" => Len(ops[k].target) <= NameLimit
    /\ \A j \in 1..Len(voice) : Len(voice[j]) <= NameLimit

\* a channel whose name was cut is in the guild
LongNameCut == \E j \in 1..Len(voice) : Len(voice[j]) = NameLimit

(***************************************************************************)
(* C20  Flag exclusivity: no library summary of get_library_stats has both *)
(* the kids flag and the anime flag.                                       *)
(***************************************************************************)
C20_FlagsExclusive ==
    AfterLibraryStep =>
        LET stats == GetLibraryStats
        IN  \A i \in 1..Len(stats) :
                ~(Summary(stats[i]).is_kids /\ Summary(stats[i]).is_anime)


(***************************************************************************)
(* C21  Channel-label precedence: the label of a library channel is chosen *)
(* by the kind of the library first, then by its flags: kids, then anime,  *)
(* then 4K for shows; 4K only for movies; no flag for music.  After a      *)
(* library step in which every creation succeeded, each library summary    *)
(* has a channel whose name starts with that label.                        *)
(***************************************************************************)
ExpectedLabel(library) ==
    IF library.type = "movies"
    THEN (IF library.is_4k THEN MOVIE_EMOJI \o " 4K" ELSE MOVIE_EMOJI)
    ELSE IF library.type = "tvshows"
    THEN (IF library.is_kids THEN KIDS_EMOJI
          ELSE IF library.is_anime THEN ANIME_EMOJI
          ELSE IF library.is_4k THEN TV_EMOJI \o " 4K"
          ELSE TV_EMOJI)
    ELSE MUSIC_EMOJI

\* the name of the library as the channel shows it
Shown(library) ==
    IF library.is_4k
    THEN Join(" ", Split(Remove(Remove(library.name, "4K"), "4k")))
    ELSE library.name

ExpectedChannel(library) ==
    Prefix(ExpectedLabel(library) \o " " \o Shown(library) \o ": "
             \o format_number(library.count), NameLimit)

ReadableStats ==
    LET stats == GetLibraryStats
    IN  { stats[i] : i \in { j \in 1..Len(stats) : Readable(stats[j]) } }

C21_LabelPrecedence ==
    (AfterLibraryStep /\ AllOk)
        => \A library \in ReadableStats : ExpectedChannel(library) \in VoiceNames

\* channels of a movies library with the kids flag and of a shows library
\* with the kids and the 4K flag are in the guild
C21_Witness ==
    /\ AfterLibraryStep
    /\ \E library \in ReadableStats :
          library.type = "movies" /\ library.is_kids /\ ~library.is_4k
    /\ \E library \in ReadableStats :
          library.type = "tvshows" /\ library.is_kids /\ library.is_4k
    /\ Len(voice) = 2


(***************************************************************************)
(* C22  Recently-added sections: after a recently-added step without a     *)
(* failed operation in which the client returned items, the bot holds a    *)
(* message that has the section of an item type (movies, episodes) if and  *)
(* only if the client returned an item of that type, movies before         *)
(* episodes, and no section is empty.                                      *)
(***************************************************************************)
AfterRecentStep == AtCycleEnd

\* the type of an item record of either client, in lower case
ItemType(item) ==
    IF "Type" \in DOMAIN item THEN Lower(item.Type) ELSE item.type

Returns(items, type) == \E i \in 1..Len(items) : ItemType(items[i]) = type

SectionNames(embed) == [i \in 1..Len(embed.fields) |-> embed.fields[i].name]

ExpectedSections(items) ==
    (IF Returns(items, "movie") THEN <<"m Movies">> ELSE <<>>)
      \o (IF Returns(items, "episode") THEN <<"t Episodes">> ELSE <<>>)

C22_RecentSections ==
    \A now \in Clock :
        (AfterRecentStep /\ AllOk /\ GetRecentlyAdded(now) /= <<>>)
            => /\ recently_added_message = "live"
               /\ SectionNames(HeldEmbed(recentMsgs))
                      = ExpectedSections(GetRecentlyAdded(now))
               /\ \A i \in 1..Len(HeldEmbed(recentMsgs).fields) :
                      HeldEmbed(recentMsgs).fields[i].value /= ""


(***************************************************************************)
(* C23  Only the two message handles survive a cycle: a step of a cycle    *)
(* changes no field of the media client, and a handle that is set is       *)
(* neither cleared nor replaced by a step of a cycle.                      *)
(***************************************************************************)
CycleStep == \E t \in Tasks : pc[t] \in InCycle /\ pc'[t] /= pc[t]

HandlesKept ==
    /\ status_message /= "None" => status_message' = status_message
    /\ recently_added_message /= "None"
          => recently_added_message' = recently_added_message

C23_OnlyHandlesSurvive ==
    [][CycleStep => (UNCHANGED clientVars /\ HandlesKept)]_vars


(***************************************************************************)
(* C24  Width-filter policy of the Emby count query: the query of a        *)
(* library whose name signals kids or anime has neither MinWidth nor       *)
(* MaxWidth, whatever else the name signals; otherwise it has MinWidth     *)
(* when the name signals 4K and MaxWidth when it does not; never both.     *)
(***************************************************************************)
Signals(library, word) == Contains(Lower(library.Name), word)

Exempt(library) == Signals(library, "kids") \/ Signals(library, "anime")

C24_WidthPolicy ==
    (adapter = "emby" /\ reachable /\ AfterLibraryStep)
        => \A i \in 1..Len(folders) :
               LET query == EmbyBaseQuery(folders[i])
               IN  /\ Exempt(folders[i])
                        => query.MinWidth = 0 /\ query.MaxWidth = 0
                   /\ (~Exempt(folders[i]) /\ Signals(folders[i], "4k"))
                        => query.MinWidth /= 0
                   /\ (~Exempt(folders[i]) /\ ~Signals(folders[i], "4k"))
                        => query.MaxWidth /= 0
                   /\ ~(query.MinWidth /= 0 /\ query.MaxWidth /= 0)

(***************************************************************************)
(* C25  Zero-count retry for shows: EmbyClient.get_library_stats asks a    *)
(* second time, without a width filter, exactly when the library is a      *)
(* tvshows library and its first count was zero, and then reports the      *)
(* second count; otherwise it asks once and reports the first count.       *)
(***************************************************************************)
Counted(library) ==
    /\ Lower(library.Name) /= "collections"
    /\ library.CollectionType \in KnownTypes
    /\ library.Id \notin countFails

FirstCount(library) == ServerCount(itemCount, EmbyBaseQuery(library))

Retried(library) == library.CollectionType = "tvshows" /\ FirstCount(library) = 0

ReportedCounts(name) ==
    LET stats == GetLibraryStats
    IN  { stats[i].ItemCount : i \in { j \in 1..Len(stats) : stats[j].Name = name } }

C25_ZeroCountRetry ==
    (adapter = "emby" /\ reachable /\ AfterLibraryStep)
        => \A i \in 1..Len(folders) :
               Counted(folders[i]) =>
                   LET queries == EmbyCountQueries(folders[i], itemCount)
                   IN  /\ Len(queries) = (IF Retried(folders[i]) THEN 2 ELSE 1)
                       /\ Len(queries) = 2
                            => queries[2].MinWidth = 0 /\ queries[2].MaxWidth = 0
                       /\ ReportedCounts(folders[i].Name)
                            = { IF Retried(folders[i]) THEN itemCount[folders[i].Id]
                                ELSE FirstCount(folders[i]) }

\* a tvshows library whose filtered count was zero is reported with the count
\* of the second query, next to a movies library that was asked once
C25_Witness ==
    /\ adapter = "emby" /\ reachable /\ AfterLibraryStep
    /\ \E i \in 1..Len(folders) :
          /\ Counted(folders[i]) /\ Retried(folders[i])
          /\ ReportedCounts(folders[i].Name) = {7}
    /\ \E i \in 1..Len(folders) :
          /\ Counted(folders[i]) /\ folders[i].CollectionType = "movies"
          /\ Len(EmbyCountQueries(folders[i], itemCount)) = 1


(***************************************************************************)
(* C26  Progress and ETA labels of EmbyClient.parse_session_info: with     *)
(* seconds = ticks divided by 10,000,000 and truncated, progress is        *)
(* "Unknown" and the ETA absent exactly when position or runtime is zero   *)
(* or missing; otherwise progress is "<position>/<runtime>" as H:MM:SS and *)
(* the ETA is runtime minus position in that form, absent when the         *)
(* position is at or past the runtime.                                     *)
(***************************************************************************)
Seconds(ticks) == ticks \div TicksPerSecond

Timed(session) ==
    /\ HasItem(session)
    /\ PositionKind(session) = "number"
    /\ RunTimeKind(session) = "number"

ExpectedProgress(session) ==
    LET position == Seconds(session.PlayState.PositionTicks)
        runtime  == Seconds(session.NowPlayingItem.RunTimeTicks)
    IN  IF position = 0 \/ runtime = 0 THEN "Unknown"
        ELSE TimeDelta(position) \o "/" \o TimeDelta(runtime)

ExpectedEta(session) ==
    LET position == Seconds(session.PlayState.PositionTicks)
        runtime  == Seconds(session.NowPlayingItem.RunTimeTicks)
    IN  IF position = 0 \/ runtime = 0 \/ position >= runtime THEN "None"
        ELSE TimeDelta(runtime - position)

C26_ProgressAndEta ==
    (adapter = "emby" /\ reachable /\ AfterStatusStep)
        => \A i \in 1..Len(rawSessions) :
               Timed(rawSessions[i]) =>
                   /\ parse_session_info(rawSessions[i]).progress
                        = ExpectedProgress(rawSessions[i])
                   /\ parse_session_info(rawSessions[i]).eta
                        = ExpectedEta(rawSessions[i])


(***************************************************************************)
(* C27  Local or remote is a prefix test: in the snapshot of               *)
(* get_all_stream_info the LAN bandwidth is the bandwidth of the sessions  *)
(* whose RemoteEndPoint starts with "10.", "172.16." or "192.168.", and    *)
(* the remote bandwidth is that of every other session, a session without  *)
(* an address included.                                                    *)
(***************************************************************************)
StartsWith(s, prefix) ==
    Len(s) >= Len(prefix) /\ SubSeq(s, 1, Len(prefix)) = prefix

RemoteEndPoint(session) ==
    IF "RemoteEndPoint" \in DOMAIN session THEN session.RemoteEndPoint ELSE ""

IsLocal(session) ==
    \E prefix \in {"10.", "172.16.", "192.168."} :
        StartsWith(RemoteEndPoint(session), prefix)

SessionBandwidth(session) ==
    IF session.TranscodingInfo = NoItem THEN 0 ELSE session.TranscodingInfo.Bitrate

RECURSIVE BandwidthOf(_, _)
BandwidthOf(sessions, local) ==
    IF sessions = <<>> THEN 0
    ELSE (IF IsLocal(Head(sessions)) = local
          THEN SessionBandwidth(Head(sessions)) ELSE 0)
         + BandwidthOf(Tail(sessions), local)

C27_LanIsPrefixTest ==
    (adapter = "emby" /\ reachable /\ snapshot /= NoStats)
        => /\ ~snapshot.raised
           /\ snapshot.value.lan_bandwidth = BandwidthOf(rawSessions, TRUE)
           /\ snapshot.value.remote_bandwidth = BandwidthOf(rawSessions, FALSE)


(***************************************************************************)
(* C28  format_number: a count below 1000 is shown as the bare integer, a  *)
(* count from 1000 up to 999,999 as a number with one decimal followed by  *)
(* "K", a larger one as a number with one decimal followed by "M"; for     *)
(* every count below 1,000,000 the number before "K" is below 1000.0, so   *)
(* no channel name ends in "1000.0K".                                      *)
(***************************************************************************)
EndsWith(s, suffix) ==
    Len(s) >= Len(suffix) /\ Suffix(s, Len(s) - Len(suffix)) = suffix

C28_FormatNumber ==
    (AfterLibraryStep /\ AllOk)
        => /\ \A library \in ReadableStats :
                 LET text == format_number(library.count)
                 IN  IF library.count < 1000 THEN text = ToString(library.count)
                     ELSE IF library.count < 1000000
                     THEN EndsWith(text, "K") /\ text /= "1000.0K"
                     ELSE EndsWith(text, "M")
           /\ \A name \in VoiceNames : ~EndsWith(name, ": 1000.0K")


(***************************************************************************)
(* C29  The status content is current after every successful               *)
(* update_status: when the call fetched the sessions and no chat operation *)
(* of it failed, the bot holds a status message whose embed is the one     *)
(* built from those sessions, also when the call is the first after a      *)
(* restart and adopts the bot's earlier message from the channel history.  *)
(***************************************************************************)
StatusStep == \E t \in Tasks : pc[t] = "status" /\ pc'[t] = "library"

StatusOpsOk == \A k \in (Len(ops) + 1)..Len(ops') : ops'[k].ok

C29_StatusCurrent ==
    [][(StatusStep /\ ~GetSessions.raised /\ statusExists' /\ StatusOpsOk)
          => /\ status_message' = "live"
             /\ \E now \in Clock :
                   HeldEmbed(statusMsgs') = StatusEmbed(GetSessions.value, now)]_vars


(***************************************************************************)
(* C30  No mass deletion on an empty or failed library fetch: a            *)
(* update_library_stats call whose get_library_stats returns no summary    *)
(* issues no operation and leaves the voice channels as they are; a call   *)
(* deletes a voice channel only if it obtained at least one summary.       *)
(***************************************************************************)
VoiceOps == {"create_voice_channel", "delete_voice_channel"}

C30_NoMassDeletion ==
    [][LibraryStep
         => /\ GetLibraryStats = <<>> => (voice' = voice /\ ops' = ops)
            /\ (\E k \in (Len(ops) + 1)..Len(ops') :
                    ops'[k].op = "delete_voice_channel")
                 => GetLibraryStats /= <<>>]_vars

\* the library step of a cycle has run on an empty answer in a guild that
\* holds voice channels, and the cycle has issued no voice operation
C30_Witness ==
    /\ AfterLibraryStep
    /\ GetLibraryStats = <<>>
    /\ Len(voice) >= 2
    /\ \A k \in 1..Len(ops) : ops[k].op \notin VoiceOps

====
